---- MODULE Spec2Model ----
(***************************************************************************)
(* Model of the layer scheduling and spatial mixing code of                *)
(* src/audio/spatialize.py: main() calling create_stereo_spatial_mix and   *)
(* create_multichannel_wav.  The external engine (ffmpeg / ffprobe) is the *)
(* environment: each invocation succeeds or fails nondeterministically.    *)
(* Clips are named 1..M in the sorted order of the directory listing.      *)
(* Durations are whole seconds; estimated_total_duration is kept as an     *)
(* exact fraction <<numerator, denominator>>.                              *)
(* ArchiveSpec models the filter building of archive/spatialize_audio.py,  *)
(* which computes the pan law gains itself.  PipelineSpec models           *)
(* run_pipeline of src/pipeline/main.py with the stereo compiler as its    *)
(* spatial stage.  ControllerSpec models the threads of                    *)
(* archive/ideas/interactive_controller.py.                                *)
(***************************************************************************)
EXTENDS Integers, Sequences, FiniteSets, TLC

\* ---- bounds of the model ------------------------------------------------
MaxClips == 6
MaxLayers == 2
MaxTarget == 1

\* ---- constants of the program -------------------------------------------
SampleSize == 5
FallbackClipSeconds == 10
SeedMultiplier == 12345

\* durations ffprobe reports for a clip, for a layer track, and the offsets
\* a configuration may hold (seconds)
ClipDurations == {30}
TrackDurations == {7, 10}
OffsetChoices == {0, 3}

Compilers == {"stereo", "multichannel"}

VARIABLES config, format, clips_dir, rng, pc, cur, run, files, output, success,
          archive, pipeline, controller

vars == <<config, format, clips_dir, rng, pc, cur, run, files, output, success,
          archive, pipeline, controller>>

\* ---- helpers ------------------------------------------------------------
Min(a, b) == IF a < b THEN a ELSE b

Max(a, b) == IF a > b THEN a ELSE b

Elems(xs) == {xs[k] : k \in 1..Len(xs)}

Count(xs, x) == Cardinality({k \in 1..Len(xs) : xs[k] = x})

\* xs * n
Repeat(xs, n) == [k \in 1..(Len(xs) * n) |-> xs[((k - 1) % Len(xs)) + 1]]

\* (variant: the slice includes position end)
SliceInclusive(xs, start, end) ==
  LET e == Min(end + 1, Len(xs))
  IN IF start >= e THEN <<>> ELSE [k \in 1..(e - start) |-> xs[start + k]]

\* xs[start:end] with 0 <= start
Slice(xs, start, end) ==
  LET e == Min(end, Len(xs))
  IN IF start >= e THEN <<>> ELSE [k \in 1..(e - start) |-> xs[start + k]]

\* ---- the random generator -----------------------------------------------
\* ShuffleTable[i + 1][n] is the list random.shuffle leaves in [1, ..., n]
\* right after random.seed(i * 12345) (CPython's Mersenne Twister).
ShuffleTable ==
  <<
  <<  \* random.seed(0)
    <<1>>,
    <<1,2>>,
    <<1,3,2>>,
    <<3,1,2,4>>,
    <<3,2,1,5,4>>,
    <<5,3,2,1,6,4>>,
    <<5,3,2,1,6,4,7>>,
    <<5,2,6,3,1,4,8,7>>,
    <<8,6,2,4,5,3,1,9,7>>,
    <<8,9,2,6,4,5,3,1,10,7>>,
    <<9,10,2,3,6,4,8,5,1,11,7>>,
    <<2,10,9,6,11,3,4,8,5,1,12,7>>,
    <<2,11,10,6,12,3,4,8,9,5,1,13,7>>,
    <<2,11,10,6,12,3,4,8,9,5,1,13,7,14>>,
    <<2,11,10,6,12,3,4,8,9,5,1,15,13,7,14>>,
    <<11,15,6,2,10,3,4,12,14,8,9,5,1,7,16,13>>,
    <<3,15,4,17,11,2,10,6,12,16,7,8,9,5,1,14,13>>,
    <<12,10,1,17,3,16,11,4,6,18,15,7,8,9,5,2,14,13>>,
    <<10,12,15,19,1,17,11,3,4,6,18,5,7,8,16,9,2,14,13>>,
    <<11,19,17,15,1,18,12,3,4,10,6,8,5,20,7,16,9,2,14,13>>,
    <<11,20,18,15,1,19,12,3,4,10,6,8,5,21,7,16,17,9,2,14,13>>,
    <<11,21,19,7,1,20,12,3,4,10,6,8,5,18,15,22,16,17,9,2,14,13>>,
    <<21,22,12,15,11,1,7,19,5,3,20,4,18,6,8,10,23,16,17,9,2,14,13>>,
    <<15,1,18,8,7,12,23,22,11,5,3,21,4,20,6,19,10,24,16,17,9,2,14,13>>
  >>,
  <<  \* random.seed(12345)
    <<1>>,
    <<1,2>>,
    <<3,1,2>>,
    <<2,1,3,4>>,
    <<5,3,2,1,4>>,
    <<6,5,2,3,1,4>>,
    <<7,5,2,3,1,6,4>>,
    <<4,2,8,5,3,1,6,7>>,
    <<8,5,4,2,6,3,9,1,7>>,
    <<9,8,4,6,2,3,10,5,1,7>>,
    <<8,11,10,4,9,3,2,6,5,1,7>>,
    <<12,11,9,2,8,10,3,4,6,5,1,7>>,
    <<13,11,9,2,8,10,3,4,6,5,1,12,7>>,
    <<10,14,13,3,2,9,8,11,4,6,5,1,12,7>>,
    <<11,9,8,10,13,3,2,15,14,4,6,5,1,12,7>>,
    <<11,9,8,10,16,3,2,7,15,4,6,5,13,1,12,14>>,
    <<11,9,8,10,16,3,2,7,12,4,6,5,13,15,17,1,14>>,
    <<8,11,12,2,9,13,17,15,3,7,16,5,4,6,18,10,1,14>>,
    <<9,18,13,8,16,19,11,2,6,3,7,17,5,4,15,12,10,1,14>>,
    <<17,19,4,9,20,11,8,15,13,2,6,3,16,18,5,7,12,10,1,14>>,
    <<18,20,4,8,11,15,16,13,5,21,2,6,3,17,19,9,7,12,10,1,14>>,
    <<13,11,19,4,21,16,8,20,15,17,5,18,2,6,3,22,9,7,12,10,1,14>>,
    <<17,20,13,4,22,15,8,21,11,3,18,5,19,2,16,6,23,9,7,12,10,1,14>>,
    <<15,16,13,4,23,17,8,22,11,3,19,5,20,18,2,21,6,24,9,7,12,10,1,14>>
  >>,
  <<  \* random.seed(24690)
    <<1>>,
    <<1,2>>,
    <<1,2,3>>,
    <<2,1,4,3>>,
    <<2,1,4,3,5>>,
    <<6,2,4,1,3,5>>,
    <<6,4,2,7,1,3,5>>,
    <<3,4,2,5,1,7,8,6>>,
    <<3,4,2,5,1,7,8,6,9>>,
    <<4,10,7,2,5,3,8,1,6,9>>,
    <<7,4,11,10,8,5,3,2,1,6,9>>,
    <<3,4,7,10,11,12,8,5,2,1,6,9>>,
    <<3,4,7,10,12,13,8,5,2,1,11,6,9>>,
    <<3,4,7,10,13,14,8,5,2,1,11,12,6,9>>,
    <<3,4,7,10,13,14,8,5,2,1,11,12,6,9,15>>,
    <<7,6,8,14,15,10,13,4,3,9,5,2,1,16,12,11>>,
    <<7,6,8,14,15,10,13,4,3,9,5,2,1,16,12,11,17>>,
    <<18,13,7,1,6,8,10,12,14,15,4,3,9,5,16,2,11,17>>,
    <<12,10,18,1,6,8,7,14,13,15,19,4,16,9,5,3,2,11,17>>,
    <<13,8,12,1,15,7,6,19,16,14,5,18,4,20,9,10,3,2,11,17>>,
    <<6,13,7,14,8,21,1,9,12,20,18,16,19,4,15,5,10,3,2,11,17>>,
    <<6,13,7,14,8,18,1,9,12,21,19,16,20,4,15,5,22,10,3,2,11,17>>,
    <<7,9,12,1,4,6,16,19,15,22,14,13,20,18,21,8,5,23,10,3,2,11,17>>,
    <<7,9,12,1,4,6,16,19,15,23,14,13,20,18,21,8,5,24,10,3,2,22,11,17>>
  >>,
  <<  \* random.seed(37035)
    <<1>>,
    <<2,1>>,
    <<2,3,1>>,
    <<4,1,3,2>>,
    <<4,5,3,1,2>>,
    <<6,5,4,3,1,2>>,
    <<7,5,4,3,1,6,2>>,
    <<7,5,4,2,8,1,6,3>>,
    <<8,5,4,2,9,6,7,1,3>>,
    <<10,8,9,7,4,2,5,6,1,3>>,
    <<8,5,2,10,9,4,7,11,6,1,3>>,
    <<5,8,10,2,9,11,4,7,12,6,1,3>>,
    <<5,8,10,2,9,11,4,7,13,6,1,12,3>>,
    <<5,8,11,2,9,13,4,7,14,10,6,1,12,3>>,
    <<5,8,11,2,9,13,4,7,15,10,6,14,1,12,3>>,
    <<16,8,11,2,9,13,4,7,3,10,6,15,1,14,12,5>>,
    <<1,17,9,4,15,8,11,16,14,7,3,10,6,12,13,2,5>>,
    <<16,6,1,9,8,4,15,14,18,17,12,7,13,3,10,11,2,5>>,
    <<12,4,1,17,9,6,15,8,10,3,16,18,14,7,13,19,11,2,5>>,
    <<9,4,16,6,13,1,10,12,8,18,3,17,19,7,15,14,20,11,2,5>>,
    <<10,4,19,9,7,16,1,6,13,8,12,3,18,20,15,17,14,21,11,2,5>>,
    <<10,4,20,9,7,16,1,6,13,8,12,3,18,21,15,17,14,22,19,11,2,5>>,
    <<7,13,4,10,9,1,12,22,6,15,21,8,17,16,20,3,18,14,23,19,11,2,5>>,
    <<7,13,4,10,9,1,12,22,6,15,21,8,17,16,20,3,18,14,24,19,11,2,23,5>>
  >>,
  <<  \* random.seed(49380)
    <<1>>,
    <<1,2>>,
    <<1,3,2>>,
    <<3,1,2,4>>,
    <<2,5,1,3,4>>,
    <<2,6,5,1,3,4>>,
    <<7,2,6,5,1,3,4>>,
    <<4,2,7,6,5,1,3,8>>,
    <<4,2,3,7,5,9,1,6,8>>,
    <<4,2,3,10,5,9,7,1,6,8>>,
    <<7,3,11,9,4,5,10,2,1,6,8>>,
    <<12,5,9,11,3,4,10,7,2,1,6,8>>,
    <<13,5,9,12,3,4,11,7,2,10,1,6,8>>,
    <<14,5,9,13,3,4,12,7,2,11,10,1,6,8>>,
    <<15,5,9,14,3,4,13,7,2,11,10,12,1,6,8>>,
    <<8,5,9,16,3,4,14,7,2,11,10,13,12,1,6,15>>,
    <<8,5,9,6,3,4,17,7,2,11,10,13,16,14,1,12,15>>,
    <<8,5,9,6,3,4,16,7,2,11,13,10,18,17,14,1,12,15>>,
    <<17,10,5,14,13,3,16,19,6,8,2,7,11,9,18,4,1,12,15>>,
    <<18,10,19,9,17,3,20,5,14,7,6,16,11,8,2,13,4,1,12,15>>,
    <<19,10,20,9,18,3,21,5,14,7,6,16,11,8,2,13,17,4,1,12,15>>,
    <<20,10,21,9,18,3,22,5,14,7,6,16,11,8,2,13,17,4,19,1,12,15>>,
    <<21,2,22,9,20,10,18,16,5,23,7,6,14,11,8,3,13,17,4,19,1,12,15>>,
    <<22,2,23,9,21,10,18,16,5,24,7,6,14,11,8,3,13,17,4,20,19,1,12,15>>
  >>
  >>

\* The generator as seeded by the operating system at import time.
OsSeeded == [seed |-> -1, used |-> 0]

\* (variant: the generator is not re-seeded)
SeedRngSkipped(g, k) == g

\* random.seed(k)
SeedRng(g, k) == [seed |-> k, used |-> 0]

\* The orders random.shuffle can leave a list of n elements in, generator in
\* state g: the tabulated one right after a tabulated seed, otherwise an
\* order the model does not determine.
ShufflePerms(g, n) ==
  IF /\ g.used = 0
     /\ g.seed >= 0
     /\ g.seed % SeedMultiplier = 0
     /\ (g.seed \div SeedMultiplier) < Len(ShuffleTable)
     /\ n >= 1
     /\ n <= Len(ShuffleTable[1])
  THEN {ShuffleTable[(g.seed \div SeedMultiplier) + 1][n]}
  ELSE {[k \in 1..n |-> k], [k \in 1..n |-> n + 1 - k]}

\* (variant: the order is drawn with replacement, as random.choices would)
PermutedWithReplacement(xs, p) == [k \in 1..Len(xs) |-> xs[p[((k * k) % Len(xs)) + 1]]]

Permuted(xs, p) == [k \in 1..Len(xs) |-> xs[p[k]]]

AfterShuffle(g) == [g EXCEPT !.used = g.used + 1]

\* ---- initial state ------------------------------------------------------
DefaultPositions == <<-7, 0, 7>>

DefaultVolumes == <<6, 8, 6>>

DefaultOffsets == <<0, 5, 10>>

Pool(m) == [k \in 1..m |-> k]

Config(n, pos_len, vol_len, offs, sf, ru, t) ==
  [num_layers |-> n,
   stereo_positions |-> [k \in 1..pos_len |-> DefaultPositions[((k - 1) % 3) + 1]],
   volume_adjustments |-> [k \in 1..vol_len |-> DefaultVolumes[((k - 1) % 3) + 1]],
   time_offsets |-> offs,
   shuffle_clips |-> sf,
   reuse_clips |-> ru,
   target_duration_minutes |-> t]

\* lengths of stereo_positions, volume_adjustments, time_offsets: nothing
\* validates them against num_layers, so one of them may be short
ArrayShapes(n) == {<<n, n, n>>, <<n - 1, n, n>>, <<n, n - 1, n>>, <<n, n, n - 1>>}

\* Inputs <<config, clips_dir>> that vary the pool, the policies and the
\* target, with well-formed arrays and the default offsets pattern.
PlanningInputs ==
  { <<Config(n, n, n, [k \in 1..n |-> DefaultOffsets[((k - 1) % 3) + 1]], sf, ru, t), Pool(m)>> :
      n \in 1..MaxLayers, sf \in BOOLEAN, ru \in BOOLEAN, t \in 0..MaxTarget,
      m \in 0..MaxClips }

\* Inputs that vary the shape of the arrays and the offsets, over a pool of
\* two clips used in order and without a target.
LayoutInputs ==
  UNION { { <<Config(n, sh[1], sh[2], offs, FALSE, TRUE, 0), Pool(2)>> :
              offs \in [1..sh[3] -> OffsetChoices] } :
          n \in 1..MaxLayers, sh \in UNION {ArrayShapes(m) : m \in 1..MaxLayers} }

WellShaped(c) ==
  /\ <<Len(c.stereo_positions), Len(c.volume_adjustments), Len(c.time_offsets)>>
        \in ArrayShapes(c.num_layers)

Inputs == {in \in PlanningInputs \cup LayoutInputs : WellShaped(in[1])}

FreshRun ==
  [result |-> "none", all_clips |-> <<>>, probe_idx |-> 0,
   total_clip_duration |-> 0, repeat_factor |-> 1,
   clips_per_layer |-> 0, layer_idx |-> 0, plans |-> <<>>, seeds |-> <<>>,
   temp_layer_files |-> <<>>, durations |-> <<>>, max_duration |-> 0,
   graph |-> <<>>, probes |-> 0, concats |-> <<>>, concat_failed |-> -1,
   renders |-> 0, nonzero_exit |-> FALSE]

\* the archived scripts are not part of a run of spatialize.py
ArchiveIdle == [pc |-> "idle", i |-> 0, inputs |-> <<>>, filter_parts |-> <<>>]

\* run_pipeline is not part of a run of spatialize.py's main
PipelineIdle ==
  [pc |-> "idle", skip_merge |-> FALSE, skip_spatial |-> FALSE, num_clips |-> 0,
   i |-> 0, successful_clips |-> 0, merged_file |-> "None", spatial_file |-> "None",
   success |-> "none", stages |-> <<>>, raised |-> {}]

\* InteractiveSynthesizer.__init__: running = False, generation_thread =
\* None (0), no thread created; the command loop is between two commands.
ControllerIdle ==
  [running |-> FALSE, generation_thread |-> 0, caller |-> "idle", stopped |-> FALSE,
   threads |-> <<>>]

Init ==
  /\ archive = ArchiveIdle
  /\ pipeline = PipelineIdle
  /\ controller = ControllerIdle
  /\ \E in \in Inputs : config = in[1] /\ clips_dir = in[2]
  /\ format \in {"stereo", "multichannel", "both"}
  /\ rng = OsSeeded
  /\ pc = "main_stereo"
  /\ cur = "none"
  /\ run = [c \in Compilers |-> FreshRun]
  /\ files = {}
  /\ output = [c \in Compilers |-> "absent"]
  /\ success = TRUE

\* ---- main ---------------------------------------------------------------
MainStereo ==
  /\ pc = "main_stereo"
  /\ IF format \in {"stereo", "both"}
     THEN /\ cur' = "stereo"
          /\ pc' = "scan"
          /\ run' = [run EXCEPT !["stereo"].result = "running"]
     ELSE /\ pc' = "main_multichannel"
          /\ UNCHANGED <<cur, run>>
  /\ UNCHANGED <<archive, pipeline, controller, config, format, clips_dir, rng, files, output, success>>

\* A call that has returned: its locals are gone; the record keeps the return
\* value and the history of what the call did (plans, seeds, engine calls).
Returned(r) ==
  [FreshRun EXCEPT !.result = r.result, !.repeat_factor = r.repeat_factor,
                   !.plans = r.plans, !.seeds = r.seeds, !.durations = r.durations,
                   !.probes = r.probes, !.concats = r.concats,
                   !.concat_failed = r.concat_failed, !.renders = r.renders,
                   !.nonzero_exit = r.nonzero_exit]

\* `if not create_stereo_spatial_mix(...): success = False`
MainStereoReturn ==
  /\ pc = "returned"
  /\ cur = "stereo"
  /\ success' = (success /\ run["stereo"].result = "True")
  /\ run' = [run EXCEPT !["stereo"] = Returned(@)]
  /\ pc' = "main_multichannel"
  /\ UNCHANGED <<archive, pipeline, controller, config, format, clips_dir, rng, cur, files, output>>

MainMultichannel ==
  /\ pc = "main_multichannel"
  /\ IF format \in {"multichannel", "both"}
     THEN /\ cur' = "multichannel"
          /\ pc' = "scan"
          /\ run' = [run EXCEPT !["multichannel"].result = "running"]
     ELSE /\ pc' = "done"
          /\ UNCHANGED <<cur, run>>
  /\ UNCHANGED <<archive, pipeline, controller, config, format, clips_dir, rng, files, output, success>>

MainMultichannelReturn ==
  /\ pc = "returned"
  /\ cur = "multichannel"
  /\ success' = (success /\ run["multichannel"].result = "True")
  /\ run' = [run EXCEPT !["multichannel"] = Returned(@)]
  /\ pc' = "done"
  /\ UNCHANGED <<archive, pipeline, controller, config, format, clips_dir, rng, cur, files, output>>

\* ---- clip pool inventory and duration planner ---------------------------
\* (variant: the pool is not checked for emptiness)
ScanClipsUnchecked(c) ==
  /\ pc = "scan"
  /\ cur = c
  /\ run' = [run EXCEPT ![c].all_clips = clips_dir]
  /\ pc' = "probe"
  /\ UNCHANGED <<archive, pipeline, controller, config, format, clips_dir, rng, cur, files, output, success>>

\* all_clips = sorted(listdir); an empty pool returns False
ScanClips(c) ==
  /\ pc = "scan"
  /\ cur = c
  /\ IF Len(clips_dir) = 0
     THEN /\ run' = [run EXCEPT ![c].result = "False"]
          /\ pc' = "returned"
     ELSE /\ run' = [run EXCEPT ![c].all_clips = clips_dir]
          /\ pc' = "probe"
  /\ UNCHANGED <<archive, pipeline, controller, config, format, clips_dir, rng, cur, files, output, success>>

\* One pass of the sampling loop: get_audio_duration of the next of the first
\* five clips.  ffprobe reports a duration, or exits non-zero (0.0 is used),
\* or prints something float() rejects (the ValueError is not caught).
ProbeClips(c) ==
  /\ pc = "probe"
  /\ cur = c
  /\ LET r == run[c]
     IN IF r.probe_idx < Min(SampleSize, Len(r.all_clips))
        THEN \/ \E d \in ClipDurations \cup {0} :
                  /\ run' = [run EXCEPT ![c].probe_idx = r.probe_idx + 1,
                                        ![c].probes = r.probes + 1,
                                        ![c].nonzero_exit = @ \/ d = 0,
                                        ![c].total_clip_duration = r.total_clip_duration + d]
                  /\ pc' = "probe"
             \/ /\ run' = [run EXCEPT ![c].probes = r.probes + 1,
                                      ![c].result = "ValueError"]
                /\ pc' = "crashed"
        ELSE /\ run' = run
             /\ pc' = "plan"
  /\ UNCHANGED <<archive, pipeline, controller, config, format, clips_dir, rng, cur, files, output, success>>

\* (variant: no fallback estimate when the sampled durations sum to 0)
EstimatedTotalNoFallback(r) ==
  <<r.total_clip_duration * Len(r.all_clips), Min(SampleSize, Len(r.all_clips))>>

\* estimated_total_duration = avg_clip_duration * len(all_clips), as the exact
\* fraction <<numerator, denominator>>
EstimatedTotal(r) ==
  IF r.total_clip_duration > 0
  THEN <<r.total_clip_duration * Len(r.all_clips), Min(SampleSize, Len(r.all_clips))>>
  ELSE <<FallbackClipSeconds * Len(r.all_clips), 1>>

\* (variant: the quotient rounded up)
QuotientCeil(target_seconds, est) == ((target_seconds * est[2]) + est[1] - 1) \div est[1]

\* int(target_seconds / estimated_total_duration), est = <<num, den>>
Quotient(target_seconds, est) == (target_seconds * est[2]) \div est[1]

RepeatFactor(target_seconds, est) == Max(1, Quotient(target_seconds, est))

\* The estimate, the target duration handling and clips_per_layer.  The
\* sampling locals are not read after this point and are dropped here.
PlanDuration(c) ==
  /\ pc = "plan"
  /\ cur = c
  /\ LET r == run[c]
         t == config.target_duration_minutes
         rf == IF t > 0 /\ config.reuse_clips
               THEN RepeatFactor(t * 60, EstimatedTotal(r)) ELSE 1
         clips == IF rf > 1 THEN Repeat(r.all_clips, rf) ELSE r.all_clips
     IN run' = [run EXCEPT ![c].repeat_factor = rf,
                           ![c].all_clips = clips,
                           ![c].probe_idx = 0,
                           ![c].total_clip_duration = 0,
                           ![c].clips_per_layer =
                              IF config.reuse_clips THEN Len(clips)
                              ELSE Len(clips) \div config.num_layers]
  /\ pc' = "layer"
  /\ UNCHANGED <<archive, pipeline, controller, config, format, clips_dir, rng, cur, files, output, success>>

StereoScan == ScanClips("stereo")

StereoProbe == ProbeClips("stereo")

StereoPlan == PlanDuration("stereo")

MultichannelScan == ScanClips("multichannel")

MultichannelProbe == ProbeClips("multichannel")

MultichannelPlan == PlanDuration("multichannel")

\* ---- layer scheduler and layer track builder ----------------------------
\* (variant: the last layer takes clips_per_layer clips like the others)
BaseLayerClipsNoRemainder(r) ==
  IF config.reuse_clips
  THEN r.all_clips
  ELSE Slice(r.all_clips, r.layer_idx * r.clips_per_layer,
             r.layer_idx * r.clips_per_layer + r.clips_per_layer)

\* (variant: with reuse on, layer i starts i clips into the pool, as
\* archive/extend_soundscape.py does)
BaseLayerClipsRotated(r) ==
  IF config.reuse_clips
  THEN [k \in 1..Len(r.all_clips) |->
          r.all_clips[((k - 1 + r.layer_idx) % Len(r.all_clips)) + 1]]
  ELSE LET start_idx == r.layer_idx * r.clips_per_layer
           end_idx == IF r.layer_idx < config.num_layers - 1
                      THEN start_idx + r.clips_per_layer
                      ELSE Len(r.all_clips)
       IN Slice(r.all_clips, start_idx, end_idx)

\* the clips of layer r.layer_idx before any shuffle
BaseLayerClips(r) ==
  IF config.reuse_clips
  THEN r.all_clips
  ELSE LET start_idx == r.layer_idx * r.clips_per_layer
           end_idx == IF r.layer_idx < config.num_layers - 1
                      THEN start_idx + r.clips_per_layer
                      ELSE Len(r.all_clips)
       IN Slice(r.all_clips, start_idx, end_idx)

\* (variant: one seed for all layers)
LayerSeedConstant(layer_idx) == SeedMultiplier

\* random.seed(layer_idx * 12345)
LayerSeed(layer_idx) == layer_idx * SeedMultiplier

StereoTempFile(i) == <<"temp_stereo_layer", i>>

StereoConcatList(i) == <<"temp_stereo_concat", i>>

MultichannelTempFile(i) == <<"temp_layer", i>>

MultichannelConcatList(i) == <<"temp_concat", i>>

\* Top of the loop body for one layer: layer_clips, the positional reads of
\* the configuration arrays (IndexError when one is short), temp_file
\* appended to temp_layer_files and the concat list written.
PlanLayer(c, arrays, temp_file, concat_list_file) ==
  /\ pc = "layer"
  /\ cur = c
  /\ LET r == run[c]
         i == r.layer_idx
         base == BaseLayerClips(r)
         g == SeedRng(rng, LayerSeed(i))
     IN \E p \in (IF config.shuffle_clips THEN ShufflePerms(g, Len(base))
                  ELSE {[k \in 1..Len(base) |-> k]}) :
          /\ rng' = IF config.shuffle_clips THEN AfterShuffle(g) ELSE rng
          /\ LET planned == [r EXCEPT !.plans = Append(@, Permuted(base, p)),
                                      !.seeds = Append(@, IF config.shuffle_clips
                                                          THEN g.seed ELSE -1)]
             IN IF \A a \in arrays : i < Len(a)
                THEN /\ run' = [run EXCEPT ![c] =
                                  [planned EXCEPT !.temp_layer_files = Append(@, temp_file)]]
                     /\ files' = files \cup {concat_list_file}
                     /\ pc' = "concat"
                ELSE /\ run' = [run EXCEPT ![c] = [planned EXCEPT !.result = "IndexError"]]
                     /\ files' = files
                     /\ pc' = "crashed"
  /\ UNCHANGED <<archive, pipeline, controller, config, format, clips_dir, cur, output, success>>

StereoLayer ==
  PlanLayer("stereo",
            {config.stereo_positions, config.volume_adjustments, config.time_offsets},
            StereoTempFile(run["stereo"].layer_idx),
            StereoConcatList(run["stereo"].layer_idx))

MultichannelLayer ==
  PlanLayer("multichannel", {config.time_offsets},
            MultichannelTempFile(run["multichannel"].layer_idx),
            MultichannelConcatList(run["multichannel"].layer_idx))

\* (variant: the failure is logged and the loop goes on)
ConcatFailedContinue(c) ==
  LET r == run[c]
  IN /\ run' = [run EXCEPT ![c].concats = Append(@, r.layer_idx),
                           ![c].concat_failed = r.layer_idx,
                           ![c].layer_idx = r.layer_idx + 1]
     /\ files' = files
     /\ pc' = IF r.layer_idx + 1 < config.num_layers THEN "layer" ELSE "graph"

\* what the except branch does: remove every temp layer file, return False
\* (a partly written temp_file of the failed layer is among them)
ConcatFailed(c) ==
  LET r == run[c]
  IN /\ run' = [run EXCEPT ![c].concats = Append(@, r.layer_idx),
                           ![c].concat_failed = r.layer_idx,
                           ![c].nonzero_exit = TRUE,
                           ![c].result = "False"]
     /\ files' = files \ Elems(r.temp_layer_files)
     /\ pc' = "returned"

\* (variant: the graph is built as soon as the first track exists)
AfterTrackFirstOnly(i) == "graph"

\* `for layer_idx in range(num_layers)`: after the track of layer i, the next
\* layer, or the graph once the loop is exhausted
AfterTrack(i) == IF i + 1 < config.num_layers THEN "layer" ELSE "graph"

\* ffmpeg -f concat for the current layer
StereoConcat ==
  /\ pc = "concat"
  /\ cur = "stereo"
  /\ LET r == run["stereo"]
         i == r.layer_idx
     IN \/ /\ run' = [run EXCEPT !["stereo"].concats = Append(@, i),
                                 !["stereo"].layer_idx = i + 1]
           /\ files' = (files \cup {StereoTempFile(i)}) \ {StereoConcatList(i)}
           /\ pc' = AfterTrack(i)
        \/ ConcatFailed("stereo")
  /\ UNCHANGED <<archive, pipeline, controller, config, format, clips_dir, rng, cur, output, success>>

\* (variant: the offset is left out)
AdjustedDurationNoOffset(duration, time_offset) == duration

\* adjusted_duration = duration + time_offset
AdjustedDuration(duration, time_offset) == duration + time_offset

\* ffmpeg -f concat for the current layer, then the probe of the track:
\* duration, adjusted_duration, max_duration
MultichannelConcat ==
  /\ pc = "concat"
  /\ cur = "multichannel"
  /\ LET r == run["multichannel"]
         i == r.layer_idx
         time_offset == config.time_offsets[i + 1]
     IN \/ \E duration \in TrackDurations \cup {0} :
             /\ run' = [run EXCEPT
                          !["multichannel"].concats = Append(@, i),
                          !["multichannel"].probes = r.probes + 1,
                          !["multichannel"].durations = Append(@, duration),
                          !["multichannel"].nonzero_exit = @ \/ duration = 0,
                          !["multichannel"].max_duration =
                             Max(r.max_duration, AdjustedDuration(duration, time_offset)),
                          !["multichannel"].layer_idx = i + 1]
             /\ files' = (files \cup {MultichannelTempFile(i)})
                            \ {MultichannelConcatList(i)}
             /\ pc' = AfterTrack(i)
        \/ /\ run' = [run EXCEPT !["multichannel"].concats = Append(@, i),
                                 !["multichannel"].probes = r.probes + 1,
                                 !["multichannel"].result = "ValueError"]
           /\ files' = files \cup {MultichannelTempFile(i)}
           /\ pc' = "crashed"
        \/ ConcatFailed("multichannel")
  /\ UNCHANGED <<archive, pipeline, controller, config, format, clips_dir, rng, cur, output, success>>

\* ---- graph compilers ----------------------------------------------------
Node(ins, op, args, out) == [ins |-> ins, op |-> op, args |-> args, out |-> out]

RECURSIVE StereoPartsSharedPan(_)
\* (variant: every layer is given the pan position of layer 0)
StereoPartsSharedPan(n) ==
  IF n = 0 THEN <<>>
  ELSE LET i == n - 1
           position == config.stereo_positions[1]
           volume == config.volume_adjustments[i + 1]
           time_offset == config.time_offsets[i + 1]
           delay_ms == time_offset * 1000
           delayed == time_offset > 0
           current_stream == IF delayed THEN <<"layer_delayed", i>> ELSE <<"a", i>>
       IN StereoPartsSharedPan(n - 1)
            \o (IF delayed
                THEN <<Node(<<(<<"a", i>>)>>, "adelay", <<delay_ms, delay_ms>>,
                            <<"layer_delayed", i>>)>>
                ELSE <<>>)
            \o <<Node(<<current_stream>>, "volume,stereotools", <<volume, 1, position>>,
                      <<"layer_final", i>>)>>

RECURSIVE StereoPartsUnindexedLabel(_)
\* (variant: the final label does not carry the layer index)
StereoPartsUnindexedLabel(n) ==
  IF n = 0 THEN <<>>
  ELSE LET i == n - 1
           position == config.stereo_positions[i + 1]
           volume == config.volume_adjustments[i + 1]
           time_offset == config.time_offsets[i + 1]
           delay_ms == time_offset * 1000
           delayed == time_offset > 0
           current_stream == IF delayed THEN <<"layer_delayed", i>> ELSE <<"a", i>>
       IN StereoPartsUnindexedLabel(n - 1)
            \o (IF delayed
                THEN <<Node(<<(<<"a", i>>)>>, "adelay", <<delay_ms, delay_ms>>,
                            <<"layer_delayed", i>>)>>
                ELSE <<>>)
            \o <<Node(<<current_stream>>, "volume,stereotools", <<volume, 1, position>>,
                      <<"layer_final", 0>>)>>

RECURSIVE StereoParts(_)
\* filter_parts after the first n layers
StereoParts(n) ==
  IF n = 0 THEN <<>>
  ELSE LET i == n - 1
           position == config.stereo_positions[i + 1]
           volume == config.volume_adjustments[i + 1]
           time_offset == config.time_offsets[i + 1]
           delay_ms == time_offset * 1000
           delayed == time_offset > 0
           current_stream == IF delayed THEN <<"layer_delayed", i>> ELSE <<"a", i>>
       IN StereoParts(n - 1)
            \o (IF delayed
                THEN <<Node(<<(<<"a", i>>)>>, "adelay", <<delay_ms, delay_ms>>,
                            <<"layer_delayed", i>>)>>
                ELSE <<>>)
            \o <<Node(<<current_stream>>, "volume,stereotools", <<volume, 1, position>>,
                      <<"layer_final", i>>)>>

\* The mix node `amix=inputs={num_layers}:duration=longest`: args holds the
\* values of the options the filter string sets, in the order it sets them.
StereoGraph ==
  /\ pc = "graph"
  /\ cur = "stereo"
  /\ LET n == config.num_layers
         mix_inputs == [k \in 1..n |-> <<"layer_final", k - 1>>]
     IN run' = [run EXCEPT !["stereo"].graph =
                  Append(StereoParts(n), Node(mix_inputs, "amix", <<n, "longest">>, <<"out", 0>>))]
  /\ pc' = "render"
  /\ UNCHANGED <<archive, pipeline, controller, config, format, clips_dir, rng, cur, files, output, success>>

RECURSIVE MultichannelPartsPadInput(_, _)
\* (variant: the pad reads the layer's input, not the delayed stream)
MultichannelPartsPadInput(n, max_duration) ==
  IF n = 0 THEN <<>>
  ELSE LET i == n - 1
           time_offset == config.time_offsets[i + 1]
           delay_ms == time_offset * 1000
           delayed == time_offset > 0
       IN MultichannelPartsPadInput(n - 1, max_duration)
            \o (IF delayed
                THEN <<Node(<<(<<"a", i>>)>>, "adelay", <<delay_ms>>, <<"delayed", i>>)>>
                ELSE <<>>)
            \o <<Node(<<(<<"a", i>>)>>, "apad", <<max_duration>>, <<"padded", i>>)>>

RECURSIVE MultichannelParts(_, _)
\* filter_parts after the first n layers
MultichannelParts(n, max_duration) ==
  IF n = 0 THEN <<>>
  ELSE LET i == n - 1
           time_offset == config.time_offsets[i + 1]
           delay_ms == time_offset * 1000
           delayed == time_offset > 0
           current_stream == IF delayed THEN <<"delayed", i>> ELSE <<"a", i>>
       IN MultichannelParts(n - 1, max_duration)
            \o (IF delayed
                THEN <<Node(<<(<<"a", i>>)>>, "adelay", <<delay_ms>>, <<"delayed", i>>)>>
                ELSE <<>>)
            \o <<Node(<<current_stream>>, "apad", <<max_duration>>, <<"padded", i>>)>>

MultichannelGraph ==
  /\ pc = "graph"
  /\ cur = "multichannel"
  /\ LET n == config.num_layers
         join_inputs == [k \in 1..n |-> <<"padded", k - 1>>]
     IN run' = [run EXCEPT !["multichannel"].graph =
                  Append(MultichannelParts(n, run["multichannel"].max_duration),
                         Node(join_inputs, "join", <<n, n>>, <<"out", 0>>))]
  /\ pc' = "render"
  /\ UNCHANGED <<archive, pipeline, controller, config, format, clips_dir, rng, cur, files, output, success>>

\* ---- render -------------------------------------------------------------
\* The final ffmpeg run over temp_layer_files.  Exit 0: output_file is
\* written.  Non-zero: ffmpeg may have stopped before or after it opened
\* output_file, which is not removed.  Either way the temp layer files are
\* removed.
\* (variant: a failed render is run again)
RenderAgainOnFailure(c) ==
  /\ pc = "render"
  /\ cur = c
  /\ \/ /\ output' = [output EXCEPT ![c] = "complete"]
        /\ run' = [run EXCEPT ![c].renders = @ + 1, ![c].result = "True"]
        /\ files' = files \ Elems(run[c].temp_layer_files)
        /\ pc' = "returned"
     \/ /\ \E o \in {output[c], "partial"} : output' = [output EXCEPT ![c] = o]
        /\ run' = [run EXCEPT ![c].renders = @ + 1, ![c].nonzero_exit = TRUE]
        /\ files' = files
        /\ pc' = "render"
  /\ UNCHANGED <<archive, pipeline, controller, config, format, clips_dir, rng, cur, success>>

\* (variant: a failed render clears the whole output directory)
RenderClearsOutputDir(c) ==
  /\ pc = "render"
  /\ cur = c
  /\ \/ /\ output' = [output EXCEPT ![c] = "complete"]
        /\ run' = [run EXCEPT ![c].renders = @ + 1, ![c].result = "True"]
        /\ files' = files \ Elems(run[c].temp_layer_files)
     \/ /\ output' = [x \in Compilers |-> "absent"]
        /\ run' = [run EXCEPT ![c].renders = @ + 1, ![c].result = "False"]
        /\ files' = {}
  /\ pc' = "returned"
  /\ UNCHANGED <<archive, pipeline, controller, config, format, clips_dir, rng, cur, success>>

Render(c) ==
  /\ pc = "render"
  /\ cur = c
  /\ \/ /\ output' = [output EXCEPT ![c] = "complete"]
        /\ run' = [run EXCEPT ![c].renders = @ + 1, ![c].result = "True"]
     \/ /\ \E o \in {output[c], "partial"} : output' = [output EXCEPT ![c] = o]
        /\ run' = [run EXCEPT ![c].renders = @ + 1, ![c].result = "False",
                              ![c].nonzero_exit = TRUE]
  /\ files' = files \ Elems(run[c].temp_layer_files)
  /\ pc' = "returned"
  /\ UNCHANGED <<archive, pipeline, controller, config, format, clips_dir, rng, cur, success>>

StereoRender == Render("stereo")

MultichannelRender == Render("multichannel")

Next ==
  \/ MainStereo
  \/ MainStereoReturn
  \/ MainMultichannel
  \/ MainMultichannelReturn
  \/ StereoScan
  \/ StereoProbe
  \/ StereoPlan
  \/ MultichannelScan
  \/ MultichannelProbe
  \/ MultichannelPlan
  \/ StereoLayer
  \/ StereoConcat
  \/ StereoGraph
  \/ StereoRender
  \/ MultichannelLayer
  \/ MultichannelConcat
  \/ MultichannelGraph
  \/ MultichannelRender

Spec == Init /\ [][Next]_vars

\* ---- archive/spatialize_audio.py ----------------------------------------
\* The archived spatializer: every layer reads the one merged file from
\* time_offsets[i] on (-ss) and is given a volume and a pan filter; the
\* layers are mixed in one ffmpeg run.  Pan positions and volumes are in
\* tenths, gains in 1/200.
PanChoices == {-10, -6, 0, 5, 10}

VolumeChoices == {6, 10}

\* configurations of the archived script: stereo_positions of num_layers
\* entries or one short (nothing validates it)
ArchiveInputs ==
  UNION { { [num_layers |-> n, stereo_positions |-> ps, volume_adjustments |-> vs,
             time_offsets |-> [k \in 1..n |-> DefaultOffsets[((k - 1) % 3) + 1]],
             shuffle_clips |-> FALSE, reuse_clips |-> FALSE,
             target_duration_minutes |-> 0] :
              ps \in [1..n -> PanChoices] \cup [1..(n - 1) -> {0}],
              vs \in [1..n -> VolumeChoices] } :
          n \in 1..MaxLayers }

ArchiveInit ==
  /\ config \in ArchiveInputs
  /\ pipeline = PipelineIdle
  /\ controller = ControllerIdle
  /\ archive = [ArchiveIdle EXCEPT !.pc = "start"]
  /\ format = "none"
  /\ clips_dir = <<>>
  /\ rng = OsSeeded
  /\ pc = "done"
  /\ cur = "none"
  /\ run = [c \in Compilers |-> FreshRun]
  /\ files = {}
  /\ output = [c \in Compilers |-> "absent"]
  /\ success = TRUE

\* `if not os.path.exists(merged_file): return`
ArchiveStart ==
  /\ archive.pc = "start"
  /\ \/ archive' = [archive EXCEPT !.pc = "layer"]
     \/ archive' = [archive EXCEPT !.pc = "returned"]
  /\ UNCHANGED <<pipeline, controller, config, format, clips_dir, rng, pc, cur, run, files, output,
                 success>>

\* (variant: the two gains are exchanged)
LeftGainOfRight(pan_value, volume) == (10 + pan_value) * volume

\* left_gain = (1.0 - pan_value) / 2.0 * volume, in 1/200
LeftGain(pan_value, volume) == (10 - pan_value) * volume

\* right_gain = (1.0 + pan_value) / 2.0 * volume, in 1/200
RightGain(pan_value, volume) == (10 + pan_value) * volume

\* One pass of the loop over range(num_layers): the input of layer i and its
\* filter part `[i:a]volume=V,pan=stereo|c0=L*c0+L*c1|c1=R*c0+R*c1[a{i}]`
\* (args: V, then the coefficients of c0 and of c1).
ArchiveLayer ==
  /\ archive.pc = "layer"
  /\ LET i == archive.i
     IN IF i >= config.num_layers
        THEN archive' = [archive EXCEPT !.pc = "mix"]
        ELSE IF i >= Len(config.stereo_positions)
        THEN archive' = [archive EXCEPT !.pc = "IndexError",
                                        !.inputs = Append(@, config.time_offsets[i + 1])]
        ELSE LET pan_value == config.stereo_positions[i + 1]
                 volume == config.volume_adjustments[i + 1]
                 left_gain == LeftGain(pan_value, volume)
                 right_gain == RightGain(pan_value, volume)
             IN archive' =
                  [archive EXCEPT
                     !.i = i + 1,
                     !.inputs = Append(@, config.time_offsets[i + 1]),
                     !.filter_parts =
                        Append(@, Node(<<(<<"a", i>>)>>, "volume,pan",
                                       <<volume, left_gain, left_gain, right_gain, right_gain>>,
                                       <<"archive_a", i>>))]
  /\ UNCHANGED <<pipeline, controller, config, format, clips_dir, rng, pc, cur, run, files, output,
                 success>>

\* `amix=inputs={num_layers}:duration=longest:dropout_transition=2[aout]`
ArchiveMix ==
  /\ archive.pc = "mix"
  /\ LET n == config.num_layers
         mix_inputs == [k \in 1..n |-> <<"archive_a", k - 1>>]
     IN archive' = [archive EXCEPT
                      !.pc = "run",
                      !.filter_parts =
                         Append(@, Node(mix_inputs, "amix", <<n, "longest", 2>>,
                                        <<"aout", 0>>))]
  /\ UNCHANGED <<pipeline, controller, config, format, clips_dir, rng, pc, cur, run, files, output,
                 success>>

\* the one ffmpeg run over all inputs; a non-zero return code returns early
ArchiveRun ==
  /\ archive.pc = "run"
  /\ \/ archive' = [archive EXCEPT !.pc = "mixed"]
     \/ archive' = [archive EXCEPT !.pc = "returned"]
  /\ UNCHANGED <<pipeline, controller, config, format, clips_dir, rng, pc, cur, run, files, output,
                 success>>

ArchiveNext ==
  \/ ArchiveStart
  \/ ArchiveLayer
  \/ ArchiveMix
  \/ ArchiveRun

ArchiveSpec == ArchiveInit /\ [][ArchiveNext]_vars

\* ---- src/pipeline/main.py: run_pipeline ---------------------------------
\* The largest num_clips the pipeline is asked for.
MaxGenerated == 2

\* Spatial configurations the pipeline runs with: every shape of the arrays
\* with in-order reuse, and one shuffled configuration with a target.
PipelineConfigs ==
  {in[1] : in \in {x \in LayoutInputs : WellShaped(x[1])}}
    \cup {Config(1, 1, 1, <<0>>, TRUE, TRUE, 1)}

\* run_pipeline(config_path, num_clips, skip_merge, skip_spatial) is called on
\* an empty clips directory.
PipelineInit ==
  /\ config \in PipelineConfigs
  /\ \E sm \in BOOLEAN, ss \in BOOLEAN, n \in 0..MaxGenerated :
        pipeline = [PipelineIdle EXCEPT !.pc = "load", !.skip_merge = sm,
                                        !.skip_spatial = ss, !.num_clips = n]
  /\ archive = ArchiveIdle
  /\ controller = ControllerIdle
  /\ format = "none"
  /\ clips_dir = <<>>
  /\ rng = OsSeeded
  /\ pc = "done"
  /\ cur = "none"
  /\ run = [c \in Compilers |-> FreshRun]
  /\ files = {}
  /\ output = [c \in Compilers |-> "absent"]
  /\ success = TRUE

\* load_config and ensure_output_dirs: the configuration loads, or an
\* exception leaves run_pipeline (nothing catches it there).
PipelineLoad ==
  /\ pipeline.pc = "load"
  /\ \/ pipeline' = [pipeline EXCEPT !.pc = "generate"]
     \/ pipeline' = [pipeline EXCEPT !.pc = "raised"]
  /\ UNCHANGED <<archive, controller, config, format, clips_dir, rng, pc, cur, run, files, output,
                 success>>

\* `clips_generated = generate_clips(...)`; `if clips_generated == 0: return
\* {'success': False}`
AfterGeneration(p) ==
  IF p.successful_clips = 0
  THEN [p EXCEPT !.pc = "returned", !.success = "False"]
  ELSE [p EXCEPT !.pc = "merge"]

\* generate_clips: one pass of the loop over range(num_clips) writes
\* clip_<i>.mp3, or generate_speech raises and the clip is skipped; after the
\* last pass the count of successes is returned to run_pipeline.
PipelineGenerate ==
  /\ pipeline.pc = "generate"
  /\ IF pipeline.i < pipeline.num_clips
     THEN /\ rng' = AfterShuffle(rng)
          /\ \/ /\ pipeline' = [pipeline EXCEPT !.i = @ + 1, !.successful_clips = @ + 1]
                /\ clips_dir' = Append(clips_dir, pipeline.i + 1)
             \/ /\ pipeline' = [pipeline EXCEPT !.i = @ + 1]
                /\ clips_dir' = clips_dir
     ELSE /\ pipeline' = AfterGeneration(pipeline)
          /\ UNCHANGED <<rng, clips_dir>>
  /\ UNCHANGED <<archive, controller, config, format, pc, cur, run, files, output, success>>

MergeConcatList == <<"concat_list", 0>>

\* `except Exception` around merge_clips: merged_file stays None
MergeRaised(p) == [p EXCEPT !.pc = "spatial", !.raised = @ \cup {"merge"}]

\* Stage 3: unless skip_merge, merge_clips is called inside try/except.  It
\* raises FileNotFoundError when the directory holds no clip, writes
\* concat_list.txt, runs ffmpeg, raises on a non-zero exit (the list stays),
\* and otherwise removes the list and returns the output path.
PipelineMerge ==
  /\ pipeline.pc = "merge"
  /\ IF pipeline.skip_merge
     THEN /\ pipeline' = [pipeline EXCEPT !.pc = "spatial"]
          /\ files' = files
     ELSE LET p == [pipeline EXCEPT !.stages = Append(@, "merge")]
          IN IF Len(clips_dir) = 0
             THEN /\ pipeline' = MergeRaised(p)
                  /\ files' = files
             ELSE \/ /\ pipeline' = [p EXCEPT !.pc = "spatial", !.merged_file = "merged_file"]
                     /\ files' = files \ {MergeConcatList}
                  \/ /\ pipeline' = MergeRaised(p)
                     /\ files' = files \cup {MergeConcatList}
  /\ UNCHANGED <<archive, controller, config, format, clips_dir, rng, pc, cur, run, output, success>>

\* (variant: spatialization does not look at skip_merge)
SpatialGateIgnoresMerge(p) == ~p.skip_spatial

\* `if not skip_spatial and not skip_merge`
SpatialGate(p) == ~p.skip_spatial /\ ~p.skip_merge

\* Stage 4: create_spatial_soundscape calls create_stereo_spatial_mix with
\* the configuration's policies; when the stage is skipped run_pipeline
\* returns its summary.
PipelineSpatial ==
  /\ pipeline.pc = "spatial"
  /\ IF SpatialGate(pipeline)
     THEN /\ pipeline' = [pipeline EXCEPT !.pc = "in_spatial", !.stages = Append(@, "spatial")]
          /\ cur' = "stereo"
          /\ pc' = "scan"
          /\ run' = [run EXCEPT !["stereo"].result = "running"]
     ELSE /\ pipeline' = [pipeline EXCEPT !.pc = "returned", !.success = "True"]
          /\ UNCHANGED <<cur, pc, run>>
  /\ UNCHANGED <<archive, controller, config, format, clips_dir, rng, files, output, success>>

\* (variant: nothing catches what the spatial stage raises)
SpatialRaisedUncaught(p) == [p EXCEPT !.pc = "raised", !.raised = @ \cup {"spatial"}]

\* `except Exception` around create_spatial_soundscape: spatial_file stays None
SpatialRaised(p) == [p EXCEPT !.pc = "returned", !.success = "True", !.raised = @ \cup {"spatial"}]

\* create_stereo_spatial_mix has returned or an exception has left it:
\* create_spatial_soundscape returns the output path on True and raises
\* "Spatialization failed" on False; run_pipeline catches either exception
\* and returns its summary.
PipelineSpatialReturn ==
  /\ pipeline.pc = "in_spatial"
  /\ cur = "stereo"
  /\ pc \in {"returned", "crashed"}
  /\ pipeline' = IF pc = "returned" /\ run["stereo"].result = "True"
                 THEN [pipeline EXCEPT !.pc = "returned", !.success = "True",
                                       !.spatial_file = "spatialized_file"]
                 ELSE SpatialRaised(pipeline)
  /\ run' = [run EXCEPT !["stereo"] = Returned(@)]
  /\ pc' = "done"
  /\ cur' = "none"
  /\ UNCHANGED <<archive, controller, config, format, clips_dir, rng, files, output, success>>

PipelineNext ==
  \/ PipelineLoad
  \/ PipelineGenerate
  \/ PipelineMerge
  \/ PipelineSpatial
  \/ StereoScan
  \/ StereoProbe
  \/ StereoPlan
  \/ StereoLayer
  \/ StereoConcat
  \/ StereoGraph
  \/ StereoRender
  \/ PipelineSpatialReturn

PipelineSpec == PipelineInit /\ [][PipelineNext]_vars

\* ---- archive/ideas/interactive_controller.py: InteractiveSynthesizer ----
\* Threads start_generation creates, and utterances one thread generates.
MaxThreads == 2

MaxUtterances == 2

\* A controller right after construction; the spatial configuration plays no
\* part.
ControllerInit ==
  /\ controller = ControllerIdle
  /\ config = Config(1, 1, 1, <<0>>, FALSE, FALSE, 0)
  /\ archive = ArchiveIdle
  /\ pipeline = PipelineIdle
  /\ format = "none"
  /\ clips_dir = <<>>
  /\ rng = OsSeeded
  /\ pc = "done"
  /\ cur = "none"
  /\ run = [c \in Compilers |-> FreshRun]
  /\ files = {}
  /\ output = [c \in Compilers |-> "absent"]
  /\ success = TRUE

\* start_generation(save_files), called from the command loop: returns at
\* once when running is set; otherwise sets running and starts a new thread
\* on _generation_loop.
StartGeneration ==
  /\ controller.caller = "idle"
  /\ IF controller.running
     THEN controller' = controller
     ELSE /\ Len(controller.threads) < MaxThreads
          /\ \E save_files \in BOOLEAN :
               controller' =
                 [controller EXCEPT
                    !.running = TRUE,
                    !.stopped = FALSE,
                    !.threads = Append(@, [pc |-> "test", save_files |-> save_files,
                                           utterance_count |-> 0]),
                    !.generation_thread = Len(controller.threads) + 1]
  /\ UNCHANGED <<archive, pipeline, config, format, clips_dir, rng, pc, cur, run, files,
                 output, success>>

\* stop_generation: clears running, then joins generation_thread if there is
\* one.
StopGeneration ==
  /\ controller.caller = "idle"
  /\ controller' = IF controller.generation_thread = 0
                   THEN [controller EXCEPT !.running = FALSE, !.stopped = TRUE]
                   ELSE [controller EXCEPT !.running = FALSE, !.caller = "joining"]
  /\ UNCHANGED <<archive, pipeline, config, format, clips_dir, rng, pc, cur, run, files,
                 output, success>>

\* generation_thread.join(timeout=2) returns when the thread has ended, or
\* after 2 s while the thread is still inside a call of unbounded duration
\* (the text-to-speech request, the file write).
JoinReturns(t) == t.pc \in {"done", "generate", "save"}

\* stop_generation returns
StopJoin ==
  /\ controller.caller = "joining"
  /\ JoinReturns(controller.threads[controller.generation_thread])
  /\ controller' = [controller EXCEPT !.caller = "idle", !.stopped = TRUE]
  /\ UNCHANGED <<archive, pipeline, config, format, clips_dir, rng, pc, cur, run, files,
                 output, success>>

\* `while self.running:` in thread t
LoopTest(t) ==
  /\ t <= Len(controller.threads)
  /\ controller.threads[t].pc = "test"
  /\ IF controller.running
     THEN /\ controller.threads[t].utterance_count < MaxUtterances
          /\ controller' = [controller EXCEPT !.threads[t].pc = "generate"]
     ELSE controller' = [controller EXCEPT !.threads[t].pc = "done"]
  /\ UNCHANGED <<archive, pipeline, config, format, clips_dir, rng, pc, cur, run, files,
                 output, success>>

\* generate_utterance_audio returns in thread t (utterance_count += 1), or
\* raises and the handler sleeps one second
GenerateUtterance(t) ==
  /\ t <= Len(controller.threads)
  /\ controller.threads[t].pc = "generate"
  /\ \/ controller' = [controller EXCEPT
                         !.threads[t].utterance_count = @ + 1,
                         !.threads[t].pc = IF controller.threads[t].save_files
                                           THEN "save" ELSE "sleep"]
     \/ controller' = [controller EXCEPT !.threads[t].pc = "error_sleep"]
  /\ UNCHANGED <<archive, pipeline, config, format, clips_dir, rng, pc, cur, run, files,
                 output, success>>

SoundscapeFile(utterance_count) == <<"soundscape", utterance_count>>

\* save_audio writes soundscape_<utterance_count>.mp3 in thread t, or raises
SaveAudio(t) ==
  /\ t <= Len(controller.threads)
  /\ controller.threads[t].pc = "save"
  /\ \/ /\ files' = files \cup {SoundscapeFile(controller.threads[t].utterance_count)}
        /\ controller' = [controller EXCEPT !.threads[t].pc = "sleep"]
     \/ /\ files' = files
        /\ controller' = [controller EXCEPT !.threads[t].pc = "error_sleep"]
  /\ UNCHANGED <<archive, pipeline, config, format, clips_dir, rng, pc, cur, run, output,
                 success>>

\* the pause loop of thread t ends: the pause has elapsed or running is clear
PauseSleep(t) ==
  /\ t <= Len(controller.threads)
  /\ controller.threads[t].pc = "sleep"
  /\ controller' = [controller EXCEPT !.threads[t].pc = "test"]
  /\ UNCHANGED <<archive, pipeline, config, format, clips_dir, rng, pc, cur, run, files,
                 output, success>>

\* `except Exception: ... time.sleep(1)` in thread t
ErrorSleep(t) ==
  /\ t <= Len(controller.threads)
  /\ controller.threads[t].pc = "error_sleep"
  /\ controller' = [controller EXCEPT !.threads[t].pc = "test"]
  /\ UNCHANGED <<archive, pipeline, config, format, clips_dir, rng, pc, cur, run, files,
                 output, success>>

ControllerNext ==
  \/ StartGeneration
  \/ StopGeneration
  \/ StopJoin
  \/ \E t \in 1..MaxThreads : LoopTest(t)
  \/ \E t \in 1..MaxThreads : GenerateUtterance(t)
  \/ \E t \in 1..MaxThreads : SaveAudio(t)
  \/ \E t \in 1..MaxThreads : PauseSleep(t)
  \/ \E t \in 1..MaxThreads : ErrorSleep(t)

ControllerSpec == ControllerInit /\ [][ControllerNext]_vars

\* ==== properties =========================================================
Planned(c) == Len(run[c].plans)

\* how often clip x occurs in the plans of all layers of compiler c
Occurrences(c, x) ==
  Cardinality({ik \in UNION {{<<i, k>> : k \in 1..Len(run[c].plans[i])} : i \in 1..Planned(c)} :
                 run[c].plans[ik[1]][ik[2]] = x})

SameClips(xs, ys) ==
  /\ Len(xs) = Len(ys)
  /\ \A x \in Elems(xs) \cup Elems(ys) : Count(xs, x) = Count(ys, x)

\* C1: with reuse off and num_layers <= pool size, the clip sequences of the
\* layers planned so far are pairwise disjoint, and once all num_layers layers
\* are planned every clip of the pool occurs in them exactly once (shuffle on
\* or off, stereo and multichannel).
C1_PartitionsDisjointAndCover ==
  \A c \in Compilers :
    (~config.reuse_clips /\ config.num_layers <= Len(clips_dir)) =>
      /\ \A i \in 1..Planned(c) : \A j \in 1..Planned(c) :
           i # j => Elems(run[c].plans[i]) \cap Elems(run[c].plans[j]) = {}
      /\ Planned(c) = config.num_layers =>
           \A x \in Elems(clips_dir) : Occurrences(c, x) = 1

\* five clips over two layers, shuffled: 2 + 3 clips, the last layer takes
\* the remainder
C1_Witness ==
  /\ ~config.reuse_clips
  /\ config.shuffle_clips
  /\ config.num_layers = 2
  /\ Len(clips_dir) = 5
  /\ Planned("multichannel") = 2
  /\ Len(run["multichannel"].plans[2]) = 3
  /\ run["multichannel"].plans[2] # <<3, 4, 5>>

\* C2: with reuse on, every planned layer's clip sequence has length
\* |pool| * repeat_factor and holds each clip of the pool exactly
\* repeat_factor times, for every layer and with shuffle on or off.
C2_ReusePermutation ==
  \A c \in Compilers :
    config.reuse_clips =>
      \A i \in 1..Planned(c) :
        /\ Len(run[c].plans[i]) = Len(clips_dir) * run[c].repeat_factor
        /\ \A x \in Elems(clips_dir) :
             Count(run[c].plans[i], x) = run[c].repeat_factor

\* a pool of three clips repeated twice, second layer shuffled out of order
C2_Witness ==
  /\ config.reuse_clips
  /\ config.shuffle_clips
  /\ Len(clips_dir) = 3
  /\ run["stereo"].repeat_factor = 2
  /\ Planned("stereo") = 2
  /\ run["stereo"].plans[2] # <<1, 2, 3, 1, 2, 3>>

\* C3: scheduling is deterministic: when the stereo and the multichannel
\* compiler run over the same pool with the same repeat factor, every layer
\* both have planned has the identical clip sequence in both, whatever the
\* random generator was used for before.
C3_Deterministic ==
  run["stereo"].repeat_factor = run["multichannel"].repeat_factor =>
    \A i \in 1..Min(Planned("stereo"), Planned("multichannel")) :
      run["stereo"].plans[i] = run["multichannel"].plans[i]

\* both compilers have shuffled layer 2 of a four-clip pool, after the
\* stereo compiler already drew from the generator
C3_Witness ==
  /\ format = "both"
  /\ config.shuffle_clips
  /\ config.reuse_clips
  /\ Len(clips_dir) = 4
  /\ Planned("stereo") = 2
  /\ Planned("multichannel") = 2
  /\ run["stereo"].repeat_factor = run["multichannel"].repeat_factor
  /\ run["multichannel"].plans[2] # run["multichannel"].plans[1]

C5_RepeatReachesTarget ==
  [][(pc = "plan" /\ config.target_duration_minutes > 0 /\ config.reuse_clips) =>
       LET est == EstimatedTotal(run[cur])
           target_seconds == config.target_duration_minutes * 60
           rf == run'[cur].repeat_factor
       IN IF est[1] >= target_seconds * est[2]
          THEN rf = 1
          ELSE rf * est[1] >= target_seconds * est[2]]_vars

\* C6: the planner's step sets repeat_factor to 1 without a target; to
\* max(1, floor(target_seconds / estimated_total_duration)) with a target and
\* reuse on, all_clips becoming the pool concatenated that many times; and to
\* 1 with a target and reuse off, the pool unchanged.  In every case the run
\* goes on to track building.
C6_PlannerRepeatFactor ==
  [][pc = "plan" =>
       LET r == run[cur]
           after == run'[cur]
           m == Len(r.all_clips)
           est == EstimatedTotal(r)
           t == config.target_duration_minutes
           rf == after.repeat_factor
       IN /\ pc' = "layer"
          /\ after.result = "running"
          /\ t = 0 => (rf = 1 /\ after.all_clips = r.all_clips)
          /\ (t > 0 /\ ~config.reuse_clips) => (rf = 1 /\ after.all_clips = r.all_clips)
          /\ (t > 0 /\ config.reuse_clips) =>
               /\ rf >= 1
               /\ rf = 1 \/ rf * est[1] <= t * 60 * est[2]
               /\ t * 60 * est[2] < (rf + 1) * est[1]
               /\ Len(after.all_clips) = rf * m
               /\ \A k \in 1..(rf * m) :
                    after.all_clips[k] = r.all_clips[((k - 1) % m) + 1]]_vars

\* two clips estimated at 30 s against a target of one minute: the pool is
\* taken twice
C6_Witness ==
  /\ pc = "layer"
  /\ cur = "stereo"
  /\ config.reuse_clips
  /\ config.target_duration_minutes = 1
  /\ Len(clips_dir) = 2
  /\ run["stereo"].repeat_factor = 2
  /\ run["stereo"].all_clips = <<1, 2, 1, 2>>

\* C7: in create_multichannel_wav max_duration is the maximum over the layers
\* measured so far of (measured track duration + time offset), and in the
\* compiled graph every layer has exactly one apad node, all of them padding
\* to that one value.
C7_SharedPadDuration ==
  LET r == run["multichannel"]
      n == Len(r.durations)
      adjusted(i) == r.durations[i] + config.time_offsets[i]
  IN (cur = "multichannel" /\ r.result = "running" /\ n >= 1) =>
       /\ \A i \in 1..n : r.max_duration >= adjusted(i)
       /\ \E i \in 1..n : r.max_duration = adjusted(i)
       /\ r.graph # <<>> =>
            /\ n = config.num_layers
            /\ \A i \in 0..(n - 1) :
                 Cardinality({k \in 1..Len(r.graph) :
                                /\ r.graph[k].op = "apad"
                                /\ r.graph[k].out = <<"padded", i>>
                                /\ r.graph[k].args = <<r.max_duration>>}) = 1
            /\ Cardinality({k \in 1..Len(r.graph) : r.graph[k].op = "apad"}) = n

\* durations 10 and 7 with offsets 0 and 3: both channels padded to 10
C7_Witness ==
  /\ cur = "multichannel"
  /\ pc = "render"
  /\ run["multichannel"].durations = <<10, 7>>
  /\ config.time_offsets = <<0, 3>>
  /\ run["multichannel"].max_duration = 10
  /\ \E k \in 1..Len(run["multichannel"].graph) :
       /\ run["multichannel"].graph[k].out = <<"padded", 1>>
       /\ run["multichannel"].graph[k].args = <<10>>

Ended(c) == run[c].result \notin {"none", "running"}

TempTracks(c) ==
  { IF c = "stereo" THEN StereoTempFile(i) ELSE MultichannelTempFile(i) :
      i \in 0..(config.num_layers - 1) }

\* C8: once a render request has ended (rendered, failed or raised), none of
\* its temporary layer track files exists.
C8_TempTracksCleaned ==
  \A c \in Compilers : Ended(c) => TempTracks(c) \cap files = {}

\* C9: a request that ended in failure leaves no file at its output path, and
\* one that ended in success leaves the fully rendered file.
C9_NoPartialOutput ==
  \A c \in Compilers :
    Ended(c) => output[c] = (IF run[c].result = "True" THEN "complete" ELSE "absent")

\* C10: once the concatenation of layer k has failed, the request has
\* returned False, no later layer was or is concatenated, the render was not
\* invoked and no output exists.
C10_ConcatFailureFatal ==
  \A c \in Compilers :
    LET r == run[c]
        k == r.concat_failed
    IN k >= 0 =>
         /\ r.result = "False"
         /\ r.renders = 0
         /\ output[c] = "absent"
         /\ \A j \in 1..Len(r.concats) : r.concats[j] <= k
         /\ r.concats[Len(r.concats)] = k
         /\ Planned(c) = k + 1
         /\ ~(cur = c /\ pc \in {"layer", "concat", "graph", "render"})

\* the first of two layers failed to concatenate and main has finished
C10_Witness ==
  /\ pc = "done"
  /\ config.num_layers = 2
  /\ run["multichannel"].concat_failed = 0
  /\ run["multichannel"].concats = <<0>>
  /\ run["multichannel"].result = "False"

\* the layers of compiler c whose track probe failed: get_audio_duration
\* returned 0.0 for them
ProbeFailedLayers(c) == {i \in 1..Len(run[c].durations) : run[c].durations[i] = 0}

\* C11: in the multichannel compiler, once the duration probe of a layer's
\* concatenated track has failed, the join render is never invoked, the
\* request does not return True and no multichannel output file exists.
C11_ProbeFailureFatal ==
  ProbeFailedLayers("multichannel") # {} =>
    /\ run["multichannel"].renders = 0
    /\ run["multichannel"].result # "True"
    /\ output["multichannel"] = "absent"
    /\ ~(cur = "multichannel" /\ pc \in {"layer", "concat", "graph", "render"})

ArraysMismatch ==
  \/ Len(config.stereo_positions) # config.num_layers
  \/ Len(config.volume_adjustments) # config.num_layers
  \/ Len(config.time_offsets) # config.num_layers

EngineCalls(c) == run[c].probes + Len(run[c].concats) + run[c].renders

\* C12: when stereo_positions, volume_adjustments or time_offsets does not
\* have exactly num_layers entries, no request of the run ever invokes the
\* engine (probe, concatenate, render) or creates a file, and a request that
\* has ended has ended with a configuration error.
C12_ArrayMismatchRejectedEarly ==
  ArraysMismatch =>
    \A c \in Compilers :
      /\ EngineCalls(c) = 0
      /\ files = {}
      /\ Ended(c) => run[c].result = "ConfigError"

\* C13: with no clip in the directory, a request returns False straight from
\* the scan: it never reaches probing, planning or track building, no engine
\* invocation is made, no file is created, no output exists, and main ends
\* with success = False.
C13_EmptyPoolNoEngine ==
  Len(clips_dir) = 0 =>
    /\ files = {}
    /\ \A c \in Compilers :
         /\ EngineCalls(c) = 0
         /\ output[c] = "absent"
         /\ run[c].plans = <<>>
         /\ Ended(c) => run[c].result = "False"
         /\ cur = c => pc \in {"scan", "returned", "main_multichannel", "done"}
    /\ pc = "done" => ~success

\* both requests of a run over an empty directory have returned False
C13_Witness ==
  /\ Len(clips_dir) = 0
  /\ format = "both"
  /\ pc = "done"
  /\ run["stereo"].result = "False"
  /\ run["multichannel"].result = "False"
  /\ ~success

ConcatLists(c) ==
  { IF c = "stereo" THEN StereoConcatList(i) ELSE MultichannelConcatList(i) :
      i \in 0..(config.num_layers - 1) }

\* C14: in a run that requested both outputs and whose stereo request
\* returned True, no step of the multichannel request (a failing
\* concatenation or render included) changes the stereo output, which stays
\* the complete file, and the only files such a step removes are the
\* multichannel request's own temporary tracks and concat lists.
C14_SiblingOutputPreserved ==
  [][(format = "both" /\ run["stereo"].result = "True" /\ cur = "multichannel") =>
       /\ output'["stereo"] = "complete"
       /\ run'["stereo"] = run["stereo"]
       /\ (files \ files') \subseteq
             (TempTracks("multichannel") \cup ConcatLists("multichannel"))]_vars

\* the stereo file was rendered, then the join render of two layers failed
C14_Witness ==
  /\ format = "both"
  /\ pc = "done"
  /\ config.num_layers = 2
  /\ run["stereo"].result = "True"
  /\ output["stereo"] = "complete"
  /\ run["multichannel"].result = "False"
  /\ run["multichannel"].renders = 1
  /\ TempTracks("multichannel") \cap files = {}
  /\ ~success

\* The place of a request in PLANNED -> TRACKS_BUILT -> GRAPH_COMPILED ->
\* RENDERED | FAILED, from the control point p, the running compiler k and the
\* request's record r: 0 not started, 1 planning and building tracks,
\* 2 tracks built, 3 graph compiled, 4 rendered, 5 failed.
PhaseOf(c, p, k, r) ==
  CASE r.result = "none" -> 0
    [] r.result = "running" /\ k = c /\ p = "graph" -> 2
    [] r.result = "running" /\ k = c /\ p = "render" -> 3
    [] r.result = "running" -> 1
    [] r.result = "True" -> 4
    [] OTHER -> 5

AllTracks(c) ==
  [k \in 1..config.num_layers |->
     IF c = "stereo" THEN StereoTempFile(k - 1) ELSE MultichannelTempFile(k - 1)]

\* C15: every step moves a request forward in PLANNED -> TRACKS_BUILT ->
\* GRAPH_COMPILED -> RENDERED | FAILED or leaves it in place; a request that
\* is rendered or failed stays so and makes no further engine invocation;
\* when the render is about to start, all num_layers concatenations have
\* returned success in layer order, every layer track exists, the graph is
\* compiled and the render's inputs are all the layer tracks; and a request
\* invokes the render at most once, exactly once when it ends rendered.
C15_ForwardOnlySingleRender ==
  [][\A c \in Compilers :
       LET before == PhaseOf(c, pc, cur, run[c])
           after == PhaseOf(c, pc', cur', run'[c])
           r == run'[c]
       IN /\ after >= before
          /\ before >= 4 =>
               /\ after = before
               /\ run'[c].result = run[c].result
               /\ EngineCalls(c)' = EngineCalls(c)
          /\ after = 3 =>
               /\ r.concats = [k \in 1..config.num_layers |-> k - 1]
               /\ r.concat_failed = -1
               /\ r.temp_layer_files = AllTracks(c)
               /\ Elems(AllTracks(c)) \subseteq files'
               /\ r.graph # <<>>
               /\ r.renders = 0
          /\ after = 2 => r.graph = <<>> /\ r.renders = 0
          /\ r.renders <= 1
          /\ after = 4 => r.renders = 1
          /\ r.renders = 1 => before >= 3]_vars

\* two tracks built, the graph compiled, one render, the request rendered
C15_Witness ==
  /\ config.num_layers = 2
  /\ pc = "returned"
  /\ cur = "stereo"
  /\ run["stereo"].concats = <<0, 1>>
  /\ run["stereo"].graph # <<>>
  /\ run["stereo"].renders = 1
  /\ run["stereo"].result = "True"

IsNode(x, ins, op, args, out) ==
  /\ x.op = op
  /\ x.ins = ins
  /\ x.out = out
  /\ x.args = args

\* the nodes of graph g that carry label l as their output
Producers(g, l) == {k \in 1..Len(g) : g[k].out = l}

\* every layer has its one final label, the labels of layers 0..N-1 in that
\* order are the inputs of the last node, the only amix, with inputs = N and
\* duration = longest
SingleMixOverLayers(g) ==
  LET n == config.num_layers
  IN /\ \A i \in 0..(n - 1) : Cardinality(Producers(g, <<"layer_final", i>>)) = 1
     /\ Cardinality({k \in 1..Len(g) : g[k].out[1] = "layer_final"}) = n
     /\ Cardinality({k \in 1..Len(g) : g[k].op = "amix"}) = 1
     /\ g[Len(g)].op = "amix"
     /\ g[Len(g)].ins = [k \in 1..n |-> <<"layer_final", k - 1>>]
     /\ g[Len(g)].args[1] = n
     /\ g[Len(g)].args[2] = "longest"

\* layer i: adelay on both channels, then volume and pan, values read at
\* index i of the configuration arrays
DelayedChain(g, i) ==
  \E d \in 1..Len(g) : \E v \in 1..Len(g) :
    /\ d < v
    /\ IsNode(g[d], <<(<<"a", i>>)>>, "adelay",
              <<config.time_offsets[i + 1] * 1000, config.time_offsets[i + 1] * 1000>>,
              <<"layer_delayed", i>>)
    /\ IsNode(g[v], <<(<<"layer_delayed", i>>)>>, "volume,stereotools",
              <<config.volume_adjustments[i + 1], 1, config.stereo_positions[i + 1]>>,
              <<"layer_final", i>>)

\* layer i: volume and pan straight on the input, and no adelay node
UndelayedChain(g, i) ==
  /\ \E v \in 1..Len(g) :
       IsNode(g[v], <<(<<"a", i>>)>>, "volume,stereotools",
              <<config.volume_adjustments[i + 1], 1, config.stereo_positions[i + 1]>>,
              <<"layer_final", i>>)
  /\ Producers(g, <<"layer_delayed", i>>) = {}

\* C16 as stated: the compiled stereo graph holds for every layer i the chain
\* Delay(time_offset_i ms, both channels) -> Volume(volume_i) ->
\* Pan(position_i) ending in the layer's label, and the N labels, each once
\* and in layer order, feed the single Mix node, which sets inputs = N,
\* duration = longest and a dropout transition.
C16_DelayVolumePanMixDropout ==
  LET g == run["stereo"].graph
  IN g # <<>> =>
       /\ \A i \in 0..(config.num_layers - 1) : DelayedChain(g, i)
       /\ SingleMixOverLayers(g)
       /\ Len(g[Len(g)].args) = 3

\* C16 as amended: a layer with time_offset_i > 0 has the chain Delay ->
\* Volume -> Pan, a layer with time_offset_i <= 0 has Volume -> Pan on its
\* input and no Delay node; the N labels, each once and in layer order, feed
\* the single Mix node, which sets inputs = N and duration = longest and no
\* other option.
C16_OptionalDelayVolumePanMix ==
  LET g == run["stereo"].graph
  IN g # <<>> =>
       /\ \A i \in 0..(config.num_layers - 1) :
            IF config.time_offsets[i + 1] > 0
            THEN DelayedChain(g, i) ELSE UndelayedChain(g, i)
       /\ SingleMixOverLayers(g)
       /\ g[Len(g)].args = <<config.num_layers, "longest">>
       /\ Len(g) = config.num_layers + 1
                   + Cardinality({i \in 1..config.num_layers : config.time_offsets[i] > 0})

\* two layers, the first undelayed and the second delayed by 3 s, with
\* different pan positions
C16_Witness ==
  /\ cur = "stereo"
  /\ pc = "render"
  /\ config.num_layers = 2
  /\ config.time_offsets = <<0, 3>>
  /\ config.stereo_positions = <<-7, 0>>
  /\ Len(run["stereo"].graph) = 4
  /\ run["stereo"].graph[2].op = "adelay"
  /\ run["stereo"].graph[2].args = <<3000, 3000>>

\* the delay in ms that graph g puts on the stream the pad of layer i reads:
\* the argument of the adelay node that feeds it, 0 when it reads the layer's
\* input directly, -1 when it reads anything else
DelayBeforePad(g, i) ==
  LET pad == g[CHOOSE k \in Producers(g, <<"padded", i>>) : TRUE]
      feeding == {d \in 1..Len(g) : g[d].op = "adelay" /\ <<g[d].out>> = pad.ins
                                      /\ g[d].ins = <<(<<"a", i>>)>>}
  IN IF pad.ins = <<(<<"a", i>>)>> THEN 0
     ELSE IF Cardinality(feeding) = 1 THEN g[CHOOSE d \in feeding : TRUE].args[1]
     ELSE -1

\* C17: the compiled multichannel graph holds adelay, apad and join nodes
\* only; every layer i has exactly one apad node, reading layer i's input
\* delayed by time_offset_i (at most one adelay node per layer, before the
\* pad); and the last node is the only join, with inputs = N and an
\* N-channel layout, reading the padded streams of layers 0..N-1 in that
\* order.
C17_DelayPadJoinOnly ==
  LET g == run["multichannel"].graph
      n == config.num_layers
  IN g # <<>> =>
       /\ \A k \in 1..Len(g) : g[k].op \in {"adelay", "apad", "join"}
       /\ \A i \in 0..(n - 1) :
            /\ Cardinality(Producers(g, <<"padded", i>>)) = 1
            /\ \A k \in Producers(g, <<"padded", i>>) : g[k].op = "apad"
            /\ DelayBeforePad(g, i) = config.time_offsets[i + 1] * 1000
            /\ Cardinality({d \in 1..Len(g) :
                              g[d].op = "adelay" /\ g[d].ins = <<(<<"a", i>>)>>}) <= 1
            /\ \A d \in 1..Len(g) :
                 (g[d].op = "adelay" /\ g[d].ins = <<(<<"a", i>>)>>) =>
                   \A k \in Producers(g, <<"padded", i>>) : d < k
       /\ Cardinality({k \in 1..Len(g) : g[k].op = "apad"}) = n
       /\ Cardinality({k \in 1..Len(g) : g[k].op = "join"}) = 1
       /\ IsNode(g[Len(g)], [k \in 1..n |-> <<"padded", k - 1>>], "join", <<n, n>>,
                 <<"out", 0>>)

\* two channels, the first delayed by 3 s and the second not
C17_Witness ==
  /\ cur = "multichannel"
  /\ pc = "render"
  /\ config.num_layers = 2
  /\ config.time_offsets = <<3, 0>>
  /\ Len(run["multichannel"].graph) = 4
  /\ run["multichannel"].graph[1].op = "adelay"
  /\ run["multichannel"].graph[2].ins = <<(<<"delayed", 0>>)>>
  /\ run["multichannel"].graph[4].op = "join"

\* C18: every filter part the archived spatializer builds for a layer with
\* pan p and volume v carries left_gain = (1 - p)/2 * v on both terms of the
\* left channel and right_gain = (1 + p)/2 * v on both terms of the right
\* channel (pan and volume in tenths, gains in 1/200); so p = -1, v = 1 gives
\* 1.0 and 0.0, p = 0 gives 0.5 * v twice, and p = +1 gives 0 and v.
C18_PanLawGains ==
  \A k \in 1..Len(archive.filter_parts) :
    LET part == archive.filter_parts[k]
        p == config.stereo_positions[k]
        v == config.volume_adjustments[k]
    IN part.op = "volume,pan" =>
         LET left_gain == part.args[2]
             right_gain == part.args[4]
         IN /\ part.args[3] = left_gain
            /\ part.args[5] = right_gain
            /\ left_gain = (10 - p) * v
            /\ right_gain = (10 + p) * v
            /\ (p = -10 /\ v = 10) => (left_gain = 200 /\ right_gain = 0)
            /\ p = 0 => (left_gain = 10 * v /\ right_gain = 10 * v)
            /\ p = 10 => (left_gain = 0 /\ right_gain = 20 * v)

\* a hard-left layer at full volume and a centred layer at volume 0.6
C18_Witness ==
  /\ archive.pc = "mix"
  /\ config.stereo_positions = <<-10, 0>>
  /\ config.volume_adjustments = <<10, 6>>
  /\ archive.filter_parts[1].args = <<10, 200, 200, 0, 0>>
  /\ archive.filter_parts[2].args = <<6, 60, 60, 60, 60>>

\* C19: once a request has planned a layer (track building has begun), every
\* planned clip sequence is non-empty, and with reuse off num_layers does not
\* exceed the number of clips in the pool.
C19_LayerSequencesNonEmpty ==
  \A c \in Compilers :
    Planned(c) >= 1 =>
      /\ \A i \in 1..Planned(c) : run[c].plans[i] # <<>>
      /\ ~config.reuse_clips => config.num_layers <= Len(clips_dir)

\* C20: with reuse off, M clips and N layers, layer i < N-1 is planned
\* exactly the floor(M/N) clips at base positions [i*floor(M/N),
\* (i+1)*floor(M/N)) and the last layer the clips from (N-1)*floor(M/N) to
\* the end of the pool, floor(M/N) + (M mod N) of them; in base order when
\* shuffle is off.
C20_ContiguousNearEqual ==
  \A c \in Compilers :
    ~config.reuse_clips =>
      LET m == Len(clips_dir)
          n == config.num_layers
          q == m \div n
      IN \A i \in 0..(Planned(c) - 1) :
           LET plan == run[c].plans[i + 1]
               first == i * q
               last == IF i < n - 1 THEN (i + 1) * q ELSE m
           IN /\ Len(plan) = (IF i < n - 1 THEN q ELSE q + (m % n))
              /\ Elems(plan) = {clips_dir[k] : k \in (first + 1)..last}
              /\ ~config.shuffle_clips => plan = [k \in 1..(last - first) |-> clips_dir[first + k]]

\* five clips over two layers in base order: 2 clips, then 2 + 1
C20_Witness ==
  /\ ~config.reuse_clips
  /\ ~config.shuffle_clips
  /\ config.num_layers = 2
  /\ Len(clips_dir) = 5
  /\ run["stereo"].plans = <<(<<1, 2>>), (<<3, 4, 5>>)>>

C22_BothOutputsSamePlans ==
  (run["stereo"].result = "True" /\ run["multichannel"].result = "True") =>
    /\ Planned("stereo") = config.num_layers
    /\ Planned("multichannel") = config.num_layers
    /\ \A i \in 1..config.num_layers :
         run["stereo"].plans[i] = run["multichannel"].plans[i]

NoDuplicates(xs) == \A j \in 1..Len(xs) : \A k \in 1..Len(xs) : xs[j] = xs[k] => j = k

\* the probes a request can make without probing anything twice: the sampled
\* clips, and in the multichannel compiler one per concatenated track
ProbeBudget(c, r) ==
  Min(SampleSize, Len(clips_dir)) + (IF c = "multichannel" THEN Len(r.concats) ELSE 0)

\* C23 as stated: within a request each layer's concatenation and the render
\* are invoked at most once, and once any engine invocation (probe,
\* concatenation or render) of the request has exited non-zero, no step makes
\* a further engine invocation for it.
C23_NoCallAfterAnyNonZeroExit ==
  [][\A c \in Compilers :
       /\ NoDuplicates(run'[c].concats)
       /\ run'[c].renders <= 1
       /\ run[c].nonzero_exit => EngineCalls(c)' = EngineCalls(c)]_vars

\* C23 as amended: within a request each layer's concatenation and the
\* render are invoked at most once and nothing is probed twice, and once a
\* concatenation or the render of the request has exited non-zero, no step
\* makes a further engine invocation for it.
C23_NoRetryStopAfterConcatOrRender ==
  [][\A c \in Compilers :
       /\ NoDuplicates(run'[c].concats)
       /\ run'[c].renders <= 1
       /\ run'[c].probes <= ProbeBudget(c, run'[c])
       /\ (run[c].concat_failed >= 0 \/ (run[c].renders = 1 /\ run[c].result # "True")) =>
            EngineCalls(c)' = EngineCalls(c)]_vars

\* a clip probe failed, both layers were still concatenated, the render
\* failed and main went on to its end
C23_Witness ==
  /\ pc = "done"
  /\ format = "stereo"
  /\ run["stereo"].nonzero_exit
  /\ run["stereo"].probes = 2
  /\ run["stereo"].concats = <<0, 1>>
  /\ run["stereo"].renders = 1
  /\ run["stereo"].result = "False"

StageCalls(name) == Count(pipeline.stages, name)

\* C24: run_pipeline gates its stages on the clip count and the skip flags:
\* merge_clips is invoked only if at least one clip was generated and
\* skip_merge is false; create_spatial_soundscape only if at least one clip
\* was generated and neither skip_merge nor skip_spatial is set; with zero
\* clips the pipeline returns success=False having invoked neither stage.
C24_StageGating ==
  /\ StageCalls("merge") >= 1 =>
        pipeline.successful_clips >= 1 /\ ~pipeline.skip_merge
  /\ StageCalls("spatial") >= 1 =>
        /\ pipeline.successful_clips >= 1
        /\ ~pipeline.skip_merge
        /\ ~pipeline.skip_spatial
  /\ (pipeline.pc \in {"merge", "spatial", "in_spatial", "returned"}
        /\ pipeline.successful_clips = 0) =>
        /\ pipeline.pc = "returned"
        /\ pipeline.success = "False"
        /\ pipeline.stages = <<>>
        /\ run["stereo"].result = "none"

\* A pipeline that generated clips, merged them and went through the spatial
\* stage.
C24_Witness ==
  /\ pipeline.pc = "returned"
  /\ pipeline.successful_clips >= 1
  /\ pipeline.stages = <<"merge", "spatial">>
  /\ pipeline.spatial_file = "spatialized_file"

\* C28: run_pipeline returns success=True whenever at least one clip was
\* generated, also when merge_clips or create_spatial_soundscape raised: the
\* failed stage's result field is None, the exception does not leave
\* run_pipeline, and a failed merge does not keep spatialization from being
\* attempted.
C28_StageFailuresSwallowed ==
  /\ pipeline.raised # {} => pipeline.pc # "raised"
  /\ (pipeline.pc \in {"spatial", "in_spatial", "returned"} /\ "merge" \in pipeline.raised) =>
        pipeline.merged_file = "None"
  /\ (pipeline.pc = "returned" /\ pipeline.successful_clips >= 1) =>
        /\ pipeline.success = "True"
        /\ "spatial" \in pipeline.raised => pipeline.spatial_file = "None"
        /\ ("merge" \in pipeline.raised /\ ~pipeline.skip_spatial) =>
              StageCalls("spatial") = 1

\* A pipeline whose merge raised and whose spatial stage was still attempted
\* and raised as well.
C28_Witness ==
  /\ pipeline.pc = "returned"
  /\ pipeline.raised = {"merge", "spatial"}
  /\ pipeline.success = "True"
  /\ run["stereo"].result \in {"False", "IndexError", "ValueError"}

\* C25: once a render request has ended (rendered, a layer's concatenation
\* failed, or the render failed), none of its concat list files
\* (temp_stereo_concat_<i>.txt, temp_concat_<i>.txt) remains on disk.
C25_ConcatListsRemoved ==
  \A c \in Compilers :
    run[c].result \in {"True", "False"} => ConcatLists(c) \cap files = {}

\* how many times label l is read as an input by the nodes of graph g
Uses(g, l) ==
  Cardinality({kj \in UNION {{<<k, j>> : j \in 1..Len(g[k].ins)} : k \in 1..Len(g)} :
                  g[kj[1]].ins[kj[2]] = l})

\* the engine input streams 0:a .. (n-1):a
InputStreams(n) == {<<"a", i>> : i \in 0..(n - 1)}

WellFormedLabels(g, n) ==
  /\ \A j \in 1..Len(g) : \A k \in 1..Len(g) : j # k => g[j].out # g[k].out
  /\ \A k \in 1..Len(g) : \A j \in 1..Len(g[k].ins) :
       LET l == g[k].ins[j]
       IN \/ l \in InputStreams(n)
          \/ /\ l[1] # "a"
             /\ Cardinality({p \in 1..(k - 1) : g[p].out = l}) = 1
  /\ \A l \in InputStreams(n) : Uses(g, l) = 1
  /\ \A k \in 1..Len(g) : g[k].out # <<"out", 0>> => Uses(g, g[k].out) = 1
  /\ Producers(g, <<"out", 0>>) = {Len(g)}
  /\ g[Len(g)].op \in {"amix", "join"}
  /\ Uses(g, <<"out", 0>>) = 0

\* C26: the labels of a compiled graph, stereo or multichannel, are well
\* formed: output labels are pairwise distinct; every input label is an
\* engine input i:a with i < N or is produced by exactly one earlier node;
\* every input stream and every produced label other than the final [out] is
\* consumed exactly once; [out] is produced exactly once, by the final mix
\* or join node.
C26_GraphLabelsWellFormed ==
  \A c \in Compilers :
    run[c].graph # <<>> => WellFormedLabels(run[c].graph, config.num_layers)

\* a stereo graph of two layers, the first delayed by 3 s and the second not
C26_Witness ==
  /\ cur = "stereo"
  /\ pc = "render"
  /\ config.num_layers = 2
  /\ config.time_offsets = <<3, 0>>
  /\ Len(run["stereo"].graph) = 4
  /\ run["stereo"].graph[1].out = <<"layer_delayed", 0>>

\* C27: for every non-empty pool the estimated total duration is strictly
\* positive at the point where the planner divides by it, whatever the probes
\* returned (a failed probe counts as 0, and 10 s per clip is assumed when
\* the sampled sum is 0); so repeat_factor is an integer >= 1 and the
\* extended pool is never empty.
C27_EstimatePositive ==
  /\ (pc = "plan" /\ cur \in Compilers) =>
        /\ Len(run[cur].all_clips) >= 1
        /\ EstimatedTotal(run[cur])[1] > 0
        /\ EstimatedTotal(run[cur])[2] > 0
  /\ (pc \in {"layer", "concat", "graph", "render"} /\ cur \in Compilers) =>
        /\ run[cur].repeat_factor \in Nat \ {0}
        /\ Len(run[cur].all_clips) = run[cur].repeat_factor * Len(clips_dir)
        /\ Len(run[cur].all_clips) >= 1

\* a pool of one clip whose probe failed: the fallback of 10 s gives
\* repeat_factor 6 for a target of one minute
C27_Witness ==
  /\ cur = "stereo"
  /\ pc = "layer"
  /\ Len(clips_dir) = 1
  /\ run["stereo"].nonzero_exit
  /\ config.target_duration_minutes = 1
  /\ run["stereo"].repeat_factor = 6
  /\ Len(run["stereo"].all_clips) = 6

\* The gain a "volume,pan" filter part puts between one channel of its input
\* and an output channel: the filters of a chain apply one after the other,
\* so the volume (tenths) multiplies the pan coefficient (1/200); in 1/2000.
ChainGain(part, coefficient) == part.args[1] * part.args[coefficient]

\* C29: along each layer's stereo chain the volume is applied exactly once:
\* the overall gain from the layer track to the left output channel is
\* (1 - pan)/2 * volume, to the right output channel (1 + pan)/2 * volume, and
\* the two add up to volume (pan and volume in tenths, gains in 1/2000).
C29_VolumeAppliedOnce ==
  \A k \in 1..Len(archive.filter_parts) :
    LET part == archive.filter_parts[k]
        p == config.stereo_positions[k]
        v == config.volume_adjustments[k]
    IN part.op = "volume,pan" =>
         /\ ChainGain(part, 2) = 10 * (10 - p) * v
         /\ ChainGain(part, 4) = 10 * (10 + p) * v
         /\ ChainGain(part, 2) + ChainGain(part, 4) = 200 * v

\* the threads that are executing _generation_loop
InLoop(c) == {t \in 1..Len(c.threads) : c.threads[t].pc # "done"}

\* C30: in the archived InteractiveSynthesizer, whatever the interleaving of
\* start_generation and stop_generation with the background thread, at most
\* one thread executes _generation_loop at any time, and from the return of
\* stop_generation to the next start_generation no utterance is generated or
\* saved.
C30_SingleLoopQuietAfterStop ==
  [][ /\ Cardinality(InLoop(controller')) <= 1
      /\ (controller.stopped /\ controller'.stopped) =>
            \A t \in 1..Len(controller.threads) :
              /\ controller'.threads[t].utterance_count = controller.threads[t].utterance_count
              /\ ~(controller.threads[t].pc = "save" /\ controller'.threads[t].pc = "sleep")
    ]_vars
====
